---- MODULE Spec2Model ----
(***************************************************************************)
(* TinyLink URL shortener: the links table of database/schema.sql and the  *)
(* Express handlers of the server (POST /api/links, GET /:code,            *)
(* GET /api/links/:code, DELETE /api/links/:code).  Every handler is cut   *)
(* at its `await pool.query(...)` points: one action per SQL statement, so *)
(* that statements of concurrent requests interleave as they do on the     *)
(* connection pool.  What a handler computes before its first statement    *)
(* and after its last one touches no shared state and belongs to the       *)
(* action of that statement.                                               *)
(***************************************************************************)
EXTENDS Integers, Sequences, FiniteSets, Bags, TLC

(***************************************************************************)
(* Bounds of the model.                                                    *)
(***************************************************************************)
NumProcs == 2      \* requests the server handles at a time
MaxTime == 1       \* largest value of the database clock
MaxCreates == 2    \* INSERT statements issued after the sample data
MaxClicks == 2     \* redirects admitted per short code

NULL == -1                       \* SQL NULL in a timestamp column

(***************************************************************************)
(* Characters and short codes.  A code is a sequence of one-character      *)
(* strings.                                                                *)
(***************************************************************************)
chars ==
  << "A","B","C","D","E","F","G","H","I","J","K","L","M",
     "N","O","P","Q","R","S","T","U","V","W","X","Y","Z",
     "a","b","c","d","e","f","g","h","i","j","k","l","m",
     "n","o","p","q","r","s","t","u","v","w","x","y","z",
     "0","1","2","3","4","5","6","7","8","9" >>

charsLength == 62

CharIndex(ch) ==
  IF \E i \in 1..charsLength : chars[i] = ch
    THEN CHOOSE i \in 1..charsLength : chars[i] = ch
    ELSE 0

\* [A-Za-z0-9]
IsAlnum(ch) == CharIndex(ch) # 0

\* String.prototype.toLowerCase on one character
LowerChar(ch) ==
  LET i == CharIndex(ch) IN IF i >= 1 /\ i <= 26 THEN chars[i + 26] ELSE ch

toLowerCase(s) == [i \in 1..Len(s) |-> LowerChar(s[i])]

\* the pattern with no lower bound on the length: /^[A-Za-z0-9]{0,8}$/
CodePatternTestNoMin(s) ==
  /\ Len(s) <= 8
  /\ \A i \in 1..Len(s) : IsAlnum(s[i])

\* /^[A-Za-z0-9]{6,8}$/.test(shortCode)
CodePatternTest(s) ==
  /\ Len(s) >= 6
  /\ Len(s) <= 8
  /\ \A i \in 1..Len(s) : IsAlnum(s[i])

(***************************************************************************)
(* generateShortCode.  Math.random() is modelled as the rational           *)
(* r / RandDen for a draw r in 0..RandDen-1; draws is the sequence of      *)
(* values the random source returns, the first one choosing the length.    *)
(***************************************************************************)
RandDen == 62

Floor(num, den) == num \div den

\* the length computed as Math.floor(Math.random() * 3) + 5
generateShortCodeFrom5(draws) ==
  LET length == Floor(draws[1] * 3, RandDen) + 5
  IN  [i \in 1..length |-> chars[Floor(draws[i + 1] * charsLength, RandDen) + 1]]

generateShortCode(draws) ==
  LET length == Floor(draws[1] * 3, RandDen) + 6
  IN  [i \in 1..length |-> chars[Floor(draws[i + 1] * charsLength, RandDen) + 1]]

\* what Math.random() can return, as numerators over RandDen: [0, 1)
RandomValues == 0..(RandDen - 1)

\* outcomes of the random source explored for the generator alone: l for
\* the length, a and b taken in turn for the characters
RandomDraws(l, a, b) ==
  [i \in 1..9 |-> IF i = 1 THEN l ELSE IF i % 2 = 0 THEN a ELSE b]

NoDraws == [i \in 1..9 |-> 0]

\* outcomes of the random source explored by the service model
RandomSources == { NoDraws }

(***************************************************************************)
(* Request inputs.                                                         *)
(***************************************************************************)
cDocs   == << "d","o","c","s" >>
cGoogle == << "g","o","o","g","l","e" >>
cTest   == << "t","e","s","t" >>
cMycode == << "m","y","c","o","d","e","1" >>
cPublic == << "P","u","b","l","i","c" >>
cTooShort == << "a","b" >>
cBadChars == << "a","b","c","1","2","3","!","!" >>
cTooLong == << "a","b","c","d","e","f","g","h","i" >>
cEmpty == << >>

\* a URL string, by the parts validator.isURL looks at
\* scheme is the text before "://" ("" when there is none), host the
\* dot-separated labels of the host name, path the rest
Url(scheme, host, path) ==
  [given |-> TRUE, scheme |-> scheme, host |-> host, path |-> path]
UrlUndefined == [given |-> FALSE, scheme |-> "", host |-> << >>, path |-> ""]

uDocs    == Url("https", << "docs", "example", "com" >>, "")
uGoogle  == Url("https", << "google", "com" >>, "")
uTest    == Url("https", << "example", "com" >>, "/test")
uExample == Url("https", << "example", "com" >>, "")
uX       == Url("http", << "x", "com" >>, "")
uEmpty      == Url("", << >>, "")
uNotAUrl    == Url("", << "not-a-url" >>, "")
uNoScheme   == Url("", << "example", "com" >>, "")
uJavascript == Url("javascript", << "example", "com" >>, "")
uRoot       == Url("", << >>, "/")

UrlInputs == { UrlUndefined, uEmpty, uNotAUrl, uNoScheme, uJavascript, uExample, uX }

Custom(code) == [given |-> TRUE, value |-> code]
CustomUndefined == [given |-> FALSE, value |-> << >>]

CustomInputs ==
  { CustomUndefined, Custom(cEmpty), Custom(cTooShort), Custom(cBadChars),
    Custom(cTooLong), Custom(cGoogle), Custom(cPublic) }

\* request bodies of POST /api/links: every URL with a custom code that
\* passes, every custom code with a URL that passes
CreateInputs ==
  { [url |-> u, customCode |-> Custom(cGoogle)] : u \in UrlInputs }
  \cup { [url |-> uExample, customCode |-> c] : c \in CustomInputs }

\* codes in the path of GET /:code, GET /api/links/:code, DELETE /api/links/:code
PathCodes == { cGoogle, cPublic, cMycode }

\* codes in the path of DELETE /api/links/:code: the sample links as well
DeleteCodes == PathCodes \cup { cDocs, cTest }

(***************************************************************************)
(* validator.isURL(url, { require_protocol: true }) with the library's     *)
(* other defaults: protocols http, https, ftp; require_valid_protocol;     *)
(* require_tld; require_host.                                              *)
(***************************************************************************)
isURLRequireProtocol == TRUE

isFQDN(host) ==
  /\ Len(host) >= 2
  /\ \A i \in 1..Len(host) : host[i] # ""

isURL(url, require_protocol) ==
  /\ url.scheme # "" => url.scheme \in { "http", "https", "ftp" }
  /\ url.scheme = "" => ~require_protocol
  /\ isFQDN(url.host)

\* `!url || !validator.isURL(url, { require_protocol: true })`
UrlRejected(url) ==
  \/ ~url.given
  \/ url = uEmpty
  \/ ~isURL(url, isURLRequireProtocol)

\* `!shortCode`: undefined and the empty string are falsy
Falsy(custom) == ~custom.given \/ custom.value = << >>

\* ['api', 'healthz', 'code', 'public'].includes(code.toLowerCase())
ReservedPaths ==
  { << "a","p","i" >>, << "h","e","a","l","t","h","z" >>,
    << "c","o","d","e" >>, << "p","u","b","l","i","c" >> }

IsReserved(code) == toLowerCase(code) \in ReservedPaths

(***************************************************************************)
(* The links table (database/schema.sql) and the SQL statements the        *)
(* handlers issue on it.  A table is a set of rows.                        *)
(***************************************************************************)
NumSamples == 3
MaxId == NumSamples + MaxCreates

\* last_clicked_at declared with DEFAULT CURRENT_TIMESTAMP
RowClickedAtCreation(id, code, url, t) ==
  [ id |-> id, short_code |-> code, original_url |-> url,
    clicks |-> 0, last_clicked_at |-> t, created_at |-> t ]

Row(id, code, url, t) ==
  [ id |-> id, short_code |-> code, original_url |-> url,
    clicks |-> 0, last_clicked_at |-> NULL, created_at |-> t ]

\* INSERT INTO links (short_code, original_url) VALUES ('docs', ...), ...
SampleData(t) ==
  { Row(1, cDocs, uDocs, t), Row(2, cGoogle, uGoogle, t), Row(3, cTest, uTest, t) }

\* the SELECT without its WHERE clause
SelectByCodeAll(tbl, code) == tbl

\* SELECT ... FROM links WHERE short_code = $1
SelectByCode(tbl, code) == { r \in tbl : r.short_code = code }

\* the column declared without UNIQUE
ViolatesUniqueDropped(tbl, code) == FALSE

\* short_code VARCHAR(10) UNIQUE: the INSERT raises unique_violation (23505)
ViolatesUnique(tbl, code) == \E r \in tbl : r.short_code = code

\* the INSERT into a table whose clicks column defaults to 1
InsertLinkClicked(tbl, id, code, url, t) ==
  tbl \cup { [Row(id, code, url, t) EXCEPT !.clicks = 1] }

\* INSERT INTO links (short_code, original_url) VALUES ($1, $2)
InsertLink(tbl, id, code, url, t) == tbl \cup { Row(id, code, url, t) }

\* SET clicks = 1 in place of clicks = clicks + 1
UpdateClicksOverwrite(tbl, code, t) ==
  { IF r.short_code = code
      THEN [r EXCEPT !.clicks = 1, !.last_clicked_at = t]
      ELSE r : r \in tbl }

\* the UPDATE without last_clicked_at = CURRENT_TIMESTAMP
UpdateClicksNoTimestamp(tbl, code, t) ==
  { IF r.short_code = code THEN [r EXCEPT !.clicks = @ + 1] ELSE r : r \in tbl }

\* UPDATE links SET clicks = clicks + 1, last_clicked_at = CURRENT_TIMESTAMP
\*   WHERE short_code = $1
UpdateClicks(tbl, code, t) ==
  { IF r.short_code = code
      THEN [r EXCEPT !.clicks = @ + 1, !.last_clicked_at = t]
      ELSE r : r \in tbl }

\* a DELETE that matches no row
DeleteByCodeNone(tbl, code) == tbl

\* the DELETE without its WHERE clause
DeleteByCodeAll(tbl, code) == { }

\* DELETE FROM links WHERE short_code = $1 RETURNING short_code
DeleteByCode(tbl, code) == { r \in tbl : r.short_code # code }

\* RETURNING short_code, original_url, clicks, created_at
ReturningCreated(r) ==
  [ short_code |-> r.short_code, original_url |-> r.original_url,
    clicks |-> r.clicks, created_at |-> r.created_at ]

\* SELECT short_code, original_url, clicks, last_clicked_at, created_at
SelectedLink(r) ==
  [ short_code |-> r.short_code, original_url |-> r.original_url,
    clicks |-> r.clicks, last_clicked_at |-> r.last_clicked_at,
    created_at |-> r.created_at ]

\* SELECT short_code
SelectedCode(r) == [ short_code |-> r.short_code ]

\* SELECT original_url
SelectedUrl(r) == [ original_url |-> r.original_url ]

\* the rows ORDER BY created_at ASC would put first
OrderedFirstAsc(tbl) == { n \in tbl : \A o \in tbl : n.created_at <= o.created_at }

\* the rows ORDER BY created_at DESC can put first: those created last
OrderedFirst(tbl) == { n \in tbl : \A o \in tbl : n.created_at >= o.created_at }

\* SELECT ... FROM links ORDER BY created_at DESC: the orders the statement
\* can return the rows of tbl in; rows of equal created_at come in any order
RECURSIVE OrderByCreatedAtDesc(_)
OrderByCreatedAtDesc(tbl) ==
  IF tbl = {}
    THEN { << >> }
    ELSE UNION { { << r >> \o rest : rest \in OrderByCreatedAtDesc(tbl \ { r }) } :
                 r \in OrderedFirst(tbl) }

\* `rows.length === 0` and `rows.length > 0`
RowsEmpty(rows) == Cardinality(rows) = 0

\* `existing.rows.length > 1` in place of `> 0`
RowsFoundMany(rows) == Cardinality(rows) > 1

RowsFound(rows) == Cardinality(rows) > 0

(***************************************************************************)
(* State.  A handler that awaits its second statement is a record of its   *)
(* local variables; handlers with equal locals are not told apart, so the  *)
(* handlers in flight form a bag.                                          *)
(***************************************************************************)
VARIABLES
  links,     \* the rows of table links
  nextId,    \* next value of the id SERIAL sequence
  now,       \* the database clock: the latest CURRENT_TIMESTAMP handed out
  inflight,  \* bag of the handlers awaiting their second statement
  sent,      \* the response sent by the latest step, NoResp when it sent none
  before,    \* history: the rows of links before the step that sent it
  hist,      \* history, per row id: redirects answered, updates applied
  random,    \* generator alone: the values Math.random() is going to return
  result     \* generator alone: what generateShortCode returned, NoResult before

vars == << links, nextId, now, inflight, sent, before, hist, random, result >>

\* what a handler was asked: url and customCode of req.body (POST), code its
\* shortCode (POST) or req.params.code (GET, DELETE)
Request(op, url, customCode, code) ==
  [op |-> op, url |-> url, customCode |-> customCode, code |-> code]

PathRequest(op, code) == Request(op, UrlUndefined, CustomUndefined, code)

NoReq == Request("none", UrlUndefined, CustomUndefined, << >>)

\* label: the statement awaited; req: the request; rows: result.rows of the
\* handler's SELECT; seen (history): the row that SELECT returned
Handler(label, request, rows, seen) ==
  [label |-> label, req |-> request, rows |-> rows, seen |-> seen]

NotSeen == [id |-> 0, code |-> << >>, clicks |-> 0]
Seen(row) == [id |-> row.id, code |-> row.short_code, clicks |-> row.clicks]

Handlers == BagToSet(inflight)

Awaiting(label) == { h \in Handlers : h.label = label }

\* the number of handlers in flight that satisfy Test
RECURSIVE BagSum(_, _)
BagSum(B, S) ==
  IF S = {} THEN 0
  ELSE LET h == CHOOSE x \in S : TRUE
       IN  CopiesIn(h, B) + BagSum(B, S \ {h})

InFlight(label) == BagSum(inflight, Awaiting(label))

\* req: the request answered; logged: the error the catch block logged;
\* statements: the number of pool.query calls the handler made for it
Response(request, status, body, logged, statements) ==
  [ req |-> request, status |-> status, body |-> body, logged |-> logged,
    statements |-> statements ]

NoResp == Response(NoReq, 0, [none |-> TRUE], "none", 0)

\* res.status(500).json({ error: 'Internal server error' }) of the catch blocks
InternalError(request, logged, statements) ==
  Response(request, 500, [error |-> "Internal server error"], logged, statements)

\* ok302: 302 answers of the redirects whose SELECT returned the row;
\* lastOkAt: the clock at the latest of them; foreign: updates applied to
\* the row by redirects whose SELECT returned another row
NoHist == [ok302 |-> 0, foreign |-> 0, lastOkAt |-> NULL]

NoResult == << >>

\* the server on a database set up by schema.sql
Started ==
  /\ links = SampleData(0)
  /\ nextId = NumSamples + 1
  /\ now = 0
  /\ inflight = EmptyBag
  /\ sent = NoResp
  /\ before = {}
  /\ hist = [i \in 1..MaxId |-> NoHist]

Init ==
  /\ Started
  /\ random = NoDraws
  /\ result = NoResult

\* Node runs one callback at a time: a handler's continuation, from the
\* result of its statement to the response being written, is over before
\* the next callback runs
Ready == sent = NoResp

\* a request is accepted while the server has a free slot
Accept == Ready /\ BagCardinality(inflight) < NumProcs

\* the response has been written
Written ==
  /\ sent # NoResp
  /\ sent' = NoResp
  /\ before' = {}
  /\ UNCHANGED << links, nextId, now, inflight, hist, random, result >>

\* the handler answers without awaiting a second statement
Answer(response) ==
  /\ sent' = response
  /\ before' = links
  /\ UNCHANGED << inflight, random, result >>

\* the handler awaits its second statement
Await(h) ==
  /\ inflight' = inflight (+) SetToBag({h})
  /\ sent' = NoResp
  /\ before' = {}
  /\ UNCHANGED << random, result >>

\* the handler answers after its second statement
Finish(h, response) ==
  /\ inflight' = inflight (-) SetToBag({h})
  /\ sent' = response
  /\ before' = links
  /\ UNCHANGED << random, result >>

\* the values CURRENT_TIMESTAMP can take in the next statement
Clock == now..MaxTime

(***************************************************************************)
(* POST /api/links                                                         *)
(***************************************************************************)
\* `let shortCode = customCode; if (!shortCode) shortCode = generateShortCode()`
ShortCodeFor(customCode, draws) ==
  IF Falsy(customCode) THEN generateShortCode(draws) ELSE customCode.value

\* lines 318-348: validation, short code, SELECT short_code ... WHERE short_code = $1
Create(url, customCode, draws, storeOk) ==
  LET shortCode == ShortCodeFor(customCode, draws)
      rejected == Request("create", url, customCode, << >>)
      request == Request("create", url, customCode, shortCode)
  IN
  /\ Accept
  /\ nextId + InFlight("createInsert") <= MaxId
  /\ IF UrlRejected(url)
       THEN Answer(Response(rejected, 400, [error |-> "Invalid URL"], "none", 0))
       ELSE IF ~Falsy(customCode) /\ ~CodePatternTest(shortCode)
         THEN Answer(Response(rejected, 400,
                              [error |-> "Custom code must be 6-8 characters"], "none", 0))
         ELSE IF ~storeOk
           THEN Answer(InternalError(request, "store_error", 1))
           ELSE LET existing == { SelectedCode(r) : r \in SelectByCode(links, shortCode) } IN
                IF RowsFound(existing)
                  THEN Answer(Response(request, 409,
                              [error |-> "409 Custom code already exists"], "none", 1))
                  ELSE Await(Handler("createInsert", request, existing, NotSeen))
  /\ UNCHANGED << links, nextId, now, hist >>

\* lines 351-356: INSERT ... RETURNING short_code, original_url, clicks, created_at
CreateInsert(h, storeOk, t) ==
  /\ Ready
  /\ h \in Awaiting("createInsert")
  /\ IF ~storeOk
       THEN /\ Finish(h, InternalError(h.req, "store_error", 2))
            /\ UNCHANGED << links, nextId, now, hist >>
       ELSE /\ nextId' = nextId + 1
            /\ now' = t
            /\ IF ViolatesUnique(links, h.req.code)
                 THEN /\ Finish(h, InternalError(h.req, "unique_violation", 2))
                      /\ UNCHANGED << links, hist >>
                 ELSE LET inserted == InsertLink(links, nextId, h.req.code, h.req.url, t)
                          rows == inserted \ links
                      IN  /\ links' = inserted
                          /\ hist' = [hist EXCEPT ![nextId] = NoHist]
                          /\ Finish(h, Response(h.req, 201,
                                      ReturningCreated(CHOOSE r \in rows : TRUE), "none", 2))

(***************************************************************************)
(* GET /:code                                                              *)
(***************************************************************************)
RedirectsInFlight(code) ==
  BagSum(inflight, { h \in Awaiting("redirectUpdate") : h.req.code = code })

ClicksOf(code) ==
  LET rows == SelectByCode(links, code)
  IN  IF rows = {} THEN 0
      ELSE (CHOOSE r \in rows : \A o \in rows : o.clicks <= r.clicks).clicks

\* lines 249-265: reserved paths, SELECT original_url FROM links WHERE short_code = $1
Redirect(code, storeOk) ==
  LET request == PathRequest("redirect", code) IN
  /\ Accept
  /\ ClicksOf(code) + RedirectsInFlight(code) < MaxClicks
  /\ IF IsReserved(code)
       THEN Answer(Response(request, 302, [location |-> uRoot], "none", 0))
       ELSE IF ~storeOk
         THEN Answer(InternalError(request, "store_error", 1))
         ELSE LET rows == SelectByCode(links, code) IN
              IF RowsEmpty(rows)
                THEN Answer(Response(request, 404,
                                     [error |-> "Short URL not found"], "none", 1))
                ELSE LET row == CHOOSE r \in rows : TRUE IN
                     Await(Handler("redirectUpdate", request, { SelectedUrl(row) }, Seen(row)))
  /\ UNCHANGED << links, nextId, now, hist >>

\* lines 268-274: UPDATE links SET clicks = clicks + 1, ...; res.redirect(302, ...)
RedirectUpdate(h, storeOk, t) ==
  /\ Ready
  /\ h \in Awaiting("redirectUpdate")
  /\ IF ~storeOk
       THEN /\ Finish(h, InternalError(h.req, "store_error", 2))
            /\ UNCHANGED << links, now, hist >>
       ELSE LET hit == { r.id : r \in SelectByCode(links, h.req.code) } IN
            /\ now' = t
            /\ links' = UpdateClicks(links, h.req.code, t)
            /\ hist' = [i \in 1..MaxId |->
                 LET answered ==
                       IF i = h.seen.id
                         THEN [hist[i] EXCEPT !.ok302 = @ + 1, !.lastOkAt = t]
                         ELSE hist[i]
                 IN  IF i \in hit /\ i # h.seen.id
                       THEN [answered EXCEPT !.foreign = @ + 1]
                       ELSE answered]
            /\ Finish(h, Response(h.req, 302,
                        [location |-> (CHOOSE r \in h.rows : TRUE).original_url],
                        "none", 2))
  /\ UNCHANGED nextId

(***************************************************************************)
(* GET /api/links/:code                                                    *)
(***************************************************************************)
\* the statistics handler counting a click as the redirect does
StatsCounting(code, storeOk) ==
  LET request == PathRequest("stats", code) IN
  /\ Accept
  /\ IF ~storeOk
       THEN /\ Answer(InternalError(request, "store_error", 1))
            /\ UNCHANGED links
       ELSE LET rows == SelectByCode(links, code) IN
            /\ links' = UpdateClicks(links, code, now)
            /\ IF RowsEmpty(rows)
                 THEN Answer(Response(request, 404, [error |-> "Link not found"], "none", 1))
                 ELSE Answer(Response(request, 200,
                                      SelectedLink(CHOOSE r \in rows : TRUE), "none", 1))
  /\ UNCHANGED << nextId, now, hist >>

\* lines 297-315: SELECT short_code, original_url, clicks, last_clicked_at, created_at
Stats(code, storeOk) ==
  LET request == PathRequest("stats", code) IN
  /\ Accept
  /\ IF ~storeOk
       THEN Answer(InternalError(request, "store_error", 1))
       ELSE LET rows == SelectByCode(links, code) IN
            IF RowsEmpty(rows)
              THEN Answer(Response(request, 404, [error |-> "Link not found"], "none", 1))
              ELSE Answer(Response(request, 200,
                                   SelectedLink(CHOOSE r \in rows : TRUE), "none", 1))
  /\ UNCHANGED << links, nextId, now, hist >>

(***************************************************************************)
(* GET /api/links                                                          *)
(***************************************************************************)
\* lines 283-294: SELECT short_code, ... FROM links ORDER BY created_at DESC
List(storeOk) ==
  LET request == PathRequest("list", << >>) IN
  /\ Accept
  /\ IF ~storeOk
       THEN Answer(InternalError(request, "store_error", 1))
       ELSE \E rows \in OrderByCreatedAtDesc(links) :
              Answer(Response(request, 200,
                              [i \in 1..Len(rows) |-> SelectedLink(rows[i])], "none", 1))
  /\ UNCHANGED << links, nextId, now, hist >>

(***************************************************************************)
(* DELETE /api/links/:code                                                 *)
(***************************************************************************)
\* lines 364-382: DELETE FROM links WHERE short_code = $1 RETURNING short_code
Delete(code, storeOk) ==
  LET request == PathRequest("delete", code) IN
  /\ Accept
  /\ IF ~storeOk
       THEN /\ Answer(InternalError(request, "store_error", 1))
            /\ UNCHANGED links
       ELSE LET returning == { SelectedCode(r) : r \in links \ DeleteByCode(links, code) } IN
            /\ links' = DeleteByCode(links, code)
            /\ IF RowsEmpty(returning)
                 THEN Answer(Response(request, 404, [error |-> "Link not found"], "none", 1))
                 ELSE Answer(Response(request, 200,
                                      [message |-> "Link deleted successfully"], "none", 1))
  /\ UNCHANGED << nextId, now, hist >>

(***************************************************************************)
(* The service.  The random source is consulted only when no custom code   *)
(* is given, the store only by a request that passes validation.           *)
(***************************************************************************)
DrawsFor(body) ==
  IF ~UrlRejected(body.url) /\ Falsy(body.customCode) THEN RandomSources ELSE { NoDraws }

StoreFor(body) ==
  IF \/ UrlRejected(body.url)
     \/ ~Falsy(body.customCode) /\ ~CodePatternTest(body.customCode.value)
    THEN { TRUE }
    ELSE BOOLEAN

Next ==
  \/ \E body \in CreateInputs : \E draws \in DrawsFor(body), storeOk \in StoreFor(body) :
       Create(body.url, body.customCode, draws, storeOk)
  \/ \E h \in Handlers, storeOk \in BOOLEAN, t \in Clock : CreateInsert(h, storeOk, t)
  \/ \E code \in PathCodes, storeOk \in BOOLEAN : Redirect(code, storeOk)
  \/ \E h \in Handlers, storeOk \in BOOLEAN, t \in Clock : RedirectUpdate(h, storeOk, t)
  \/ \E code \in PathCodes, storeOk \in BOOLEAN : Stats(code, storeOk)
  \/ \E storeOk \in BOOLEAN : List(storeOk)
  \/ \E code \in DeleteCodes, storeOk \in BOOLEAN : Delete(code, storeOk)
  \/ Written

Spec == Init /\ [][Next]_vars

(***************************************************************************)
(* The generator alone: generateShortCode applied to the outcomes of the   *)
(* random source RandomDraws gives, the server left as it started.         *)
(***************************************************************************)
GenInit ==
  /\ Started
  /\ \E l \in RandomValues, a \in RandomValues, b \in RandomValues :
       random = RandomDraws(l, a, b)
  /\ result = NoResult

\* lines 399-407: generateShortCode()
Generate ==
  /\ result = NoResult
  /\ result' = generateShortCode(random)
  /\ UNCHANGED << links, nextId, now, inflight, sent, before, hist, random >>

GenNext == Generate

GenSpec == GenInit /\ [][GenNext]_vars

(***************************************************************************)
(* Properties.  A response is judged in the state that holds it: sent is   *)
(* the response, before the table as the answering step found it, links    *)
(* the table as it left it.  A request for a reserved path is answered by  *)
(* the HTTP boundary with no statement (statements = 0) and is not a call  *)
(* of the link service.                                                    *)
(***************************************************************************)
Live(code) == \E r \in links : r.short_code = code
LiveBefore(code) == \E r \in before : r.short_code = code
Created(r) == r.id > NumSamples

Alphabet == { chars[i] : i \in 1..charsLength }
MatchesCodePattern(code) ==
  /\ Len(code) \in 6..8
  /\ \A i \in 1..Len(code) : code[i] \in Alphabet

NoExplicitScheme(url) == ~url.given \/ url.scheme = ""

Untouched(r) == hist[r.id].foreign = 0

\* C1: in every reachable state no two rows of links have the same
\* short_code, whatever creates, redirects and deletes were interleaved.
C1_UniqueCodes ==
  \A r1 \in links, r2 \in links : r1.short_code = r2.short_code => r1 = r2

\* a create awaits its INSERT while a link created meanwhile holds its code
C1_Witness ==
  \E h \in Awaiting("createInsert") :
    \E r \in links : r.short_code = h.req.code /\ Created(r)

\* C2: for a link that is not deleted and re-created under a redirect in
\* flight, clicks equals the number of redirects of it that were answered
\* 302 after their UPDATE, under every interleaving of lookups and updates.
C2_NoLostClicks ==
  \A r \in links : Untouched(r) => r.clicks = hist[r.id].ok302

\* a redirect is between lookup and update while another one has counted
C2_Witness ==
  \E h \in Awaiting("redirectUpdate") :
    \E r \in links :
      /\ r.id = h.seen.id
      /\ h.seen.clicks < r.clicks
      /\ hist[r.id].ok302 = r.clicks
      /\ Untouched(r)

\* C3 (as stated): a create that finds its code taken, at its lookup or at
\* its INSERT, and meets no store failure, is answered 409.
C3_LoserGetsConflict ==
  (sent.req.op = "create" /\ LiveBefore(sent.req.code) /\ sent.logged # "store_error")
    => sent.status = 409

\* C4: a create issued when a link with its code exists is answered 409
\* after its lookup, goes no further, and leaves the table as it was.
C4_SecondCreateConflicts ==
  /\ \A h \in Awaiting("createInsert") : h.rows = {}
  /\ (sent.req.op = "create" /\ sent.statements = 1 /\ sent.logged = "none"
        /\ LiveBefore(sent.req.code))
       => sent.status = 409 /\ links = before

\* a create with another url is refused for a code a create took before
C4_Witness ==
  /\ sent.req.op = "create"
  /\ sent.status = 409
  /\ \E r \in links :
       /\ Created(r)
       /\ r.short_code = sent.req.code
       /\ r.original_url # sent.req.url

\* C5: after n redirects of a link were answered, one after another, its
\* clicks is n; last_clicked_at is null for n = 0 and the timestamp of the
\* last of them otherwise.
C5_ClicksAndLastClick ==
  \A r \in links :
    Untouched(r) =>
      /\ r.clicks = hist[r.id].ok302
      /\ r.last_clicked_at = IF r.clicks = 0 THEN NULL ELSE hist[r.id].lastOkAt

\* a created link was redirected twice, one redirect after the other, the
\* last one after the clock moved on
C5_Witness ==
  /\ Awaiting("redirectUpdate") = {}
  /\ \E r \in links :
       /\ Created(r)
       /\ r.clicks = 2
       /\ hist[r.id].ok302 = 2
       /\ Untouched(r)
       /\ r.last_clicked_at > r.created_at

\* C6 (as stated): a redirect answered 302 with a destination has raised
\* the clicks of a link with its code by exactly 1.
C6_EveryRedirectCounts ==
  (sent.req.op = "redirect" /\ sent.status = 302 /\ sent.statements = 2)
    => \E r \in before :
         /\ r.short_code = sent.req.code
         /\ \E r2 \in links : r2.id = r.id /\ r2.clicks = r.clicks + 1

\* C7: for a code the pattern accepts: a delete of a live code is answered
\* 200 and removes its row and no other; a delete of a code that is not live
\* is answered 404 and changes nothing; a create whose INSERT finds the code
\* free is answered 201 and adds one row with clicks 0 and last_clicked_at
\* null; a create is told the code exists only when it does.
C7_DeleteFreesCode ==
  /\ (sent.req.op = "delete" /\ sent.logged = "none" /\ LiveBefore(sent.req.code))
       => /\ sent.status = 200
          /\ links = { r \in before : r.short_code # sent.req.code }
  /\ (sent.req.op = "delete" /\ sent.logged = "none" /\ ~LiveBefore(sent.req.code))
       => sent.status = 404 /\ links = before
  /\ (sent.req.op = "create" /\ sent.statements = 2 /\ sent.logged # "store_error"
        /\ ~LiveBefore(sent.req.code))
       => /\ sent.status = 201
          /\ \E r \in links \ before :
               /\ links = before \cup { r }
               /\ r.short_code = sent.req.code
               /\ r.clicks = 0
               /\ r.last_clicked_at = NULL
  /\ (sent.req.op = "create" /\ sent.status = 409) => LiveBefore(sent.req.code)

\* the sample link google was clicked and deleted, a second delete was
\* refused, and a create has taken the code again
C7_Witness ==
  /\ sent.req.op = "create"
  /\ sent.status = 201
  /\ sent.req.code = cGoogle
  /\ hist[2].ok302 > 0
  /\ \E r \in links : r.short_code = cGoogle /\ Created(r) /\ r.clicks = 0

\* C8: a redirect or a statistics request that looks up a code no row has
\* is answered 404 and leaves the table as it was; a redirect goes on to its
\* UPDATE only with a row of the code it was asked for.
C8_DeadCodeNotFound ==
  /\ \A h \in Awaiting("redirectUpdate") : h.seen.code = h.req.code
  /\ (sent.req.op \in { "redirect", "stats" } /\ sent.statements = 1
        /\ sent.logged = "none" /\ ~LiveBefore(sent.req.code))
       => sent.status = 404 /\ links = before

\* a redirect of the sample code google, deleted before, is answered 404
C8_Witness ==
  /\ sent.req.op = "redirect"
  /\ sent.req.code = cGoogle
  /\ sent.status = 404
  /\ ~Live(cGoogle)

\* C9 (as stated): the 201 response is the full link, last_clicked_at
\* included and null.
C9_FullLinkReturned ==
  (sent.req.op = "create" /\ sent.status = 201)
    => /\ DOMAIN sent.body =
            { "short_code", "original_url", "clicks", "created_at", "last_clicked_at" }
       /\ sent.body.clicks = 0
       /\ sent.body.last_clicked_at = NULL

\* C9 (amended): the 201 response carries short_code, the requested
\* original_url, clicks = 0 and created_at of the row added, and no
\* last_clicked_at; the row added has last_clicked_at null; a statistics
\* response is the row of its code, with clicks = 0 and last_clicked_at null
\* as long as no redirect has counted on it.
C9_CreatedLinkReturned ==
  /\ (sent.req.op = "create" /\ sent.status = 201)
       => \E r \in links \ before :
            /\ sent.body = [ short_code |-> sent.req.code,
                             original_url |-> sent.req.url,
                             clicks |-> 0,
                             created_at |-> r.created_at ]
            /\ r.short_code = sent.req.code
            /\ r.original_url = sent.req.url
            /\ r.clicks = 0
            /\ r.last_clicked_at = NULL
            /\ r.created_at = now
  /\ (sent.req.op = "stats" /\ sent.status = 200)
       => \E r \in links :
            /\ r.short_code = sent.req.code
            /\ sent.body = [ short_code |-> r.short_code,
                             original_url |-> r.original_url,
                             clicks |-> r.clicks,
                             last_clicked_at |-> r.last_clicked_at,
                             created_at |-> r.created_at ]
            /\ (hist[r.id].ok302 = 0 /\ Untouched(r))
                 => sent.body.clicks = 0 /\ sent.body.last_clicked_at = NULL

\* the statistics of a link a create added, asked before any redirect of it
C9_Witness ==
  /\ sent.req.op = "stats"
  /\ sent.status = 200
  /\ \E r \in links :
       /\ Created(r)
       /\ r.short_code = sent.req.code
       /\ hist[r.id].ok302 = 0
       /\ sent.body.clicks = 0
       /\ sent.body.last_clicked_at = NULL

\* C10 (as stated): a create whose url is missing or has no scheme, or whose
\* custom code is given and does not match the pattern, is answered 400
\* with no statement issued and the table as it was.
C10_InvalidInputRejected ==
  (sent.req.op = "create" /\ sent.logged = "none"
     /\ \/ NoExplicitScheme(sent.req.url)
        \/ sent.req.customCode.given /\ ~MatchesCodePattern(sent.req.customCode.value))
    => sent.status = 400 /\ sent.statements = 0 /\ links = before

\* C10 (amended): the same for a custom code that is given, is not the
\* empty string and does not match the pattern; and no create goes on to the
\* store with such a url or with a code outside the pattern.
C10_NonEmptyInvalidRejected ==
  /\ \A h \in Awaiting("createInsert") :
       ~NoExplicitScheme(h.req.url) /\ MatchesCodePattern(h.req.code)
  /\ (sent.req.op = "create"
        /\ \/ NoExplicitScheme(sent.req.url)
           \/ /\ sent.req.customCode.given
              /\ sent.req.customCode.value # << >>
              /\ ~MatchesCodePattern(sent.req.customCode.value))
       => sent.status = 400 /\ sent.statements = 0 /\ links = before

\* a create with a custom code of two characters is answered 400
C10_Witness ==
  /\ sent.req.op = "create"
  /\ sent.req.customCode = Custom(cTooShort)
  /\ sent.status = 400
  /\ sent.body.error = "Custom code must be 6-8 characters"

\* C11: whatever the random source returns, generateShortCode returns 6, 7
\* or 8 characters, each of the 62 of chars, so the pattern accepts it.
C11_GeneratedCodeValid ==
  result # NoResult =>
    /\ Len(result) \in 6..8
    /\ \A i \in 1..Len(result) : result[i] \in Alphabet
    /\ CodePatternTest(result)

\* the largest values of the random source: eight characters, the last "9"
C11_Witness ==
  /\ result # NoResult
  /\ random[1] = RandDen - 1
  /\ Len(result) = 8
  /\ result[8] = "9"

\* C12 (as stated): from the database schema.sql sets up onwards, every
\* short_code in links is 6 to 8 characters of [A-Za-z0-9].
C12_StoredCodesMatchPattern ==
  \A r \in links : MatchesCodePattern(r.short_code)

\* C13: a statistics request and a list request, answered with rows, with
\* 404 or with 500, leave the table as they found it: the same rows, every
\* column of every row the same.
C13_ReadsLeaveStore ==
  sent.req.op \in { "stats", "list" } => links = before

\* the statistics of a link that redirects have counted on
C13_Witness ==
  /\ sent.req.op = "stats"
  /\ sent.status = 200
  /\ sent.body.clicks > 0
  /\ \E r \in links : r.short_code = sent.req.code /\ r.clicks = sent.body.clicks

\* C14: a list request that meets no store failure is answered 200 with the
\* rows of the table, each once, a row created later never after one created
\* earlier; with the empty sequence when the table is empty.
C14_ListNewestFirst ==
  (sent.req.op = "list" /\ sent.logged = "none")
    => /\ sent.status = 200
       /\ Len(sent.body) = Cardinality(links)
       /\ { sent.body[i] : i \in 1..Len(sent.body) } =
            { [ short_code |-> r.short_code, original_url |-> r.original_url,
                clicks |-> r.clicks, last_clicked_at |-> r.last_clicked_at,
                created_at |-> r.created_at ] : r \in links }
       /\ \A i \in 1..Len(sent.body), j \in 1..Len(sent.body) :
            i < j => sent.body[i].created_at >= sent.body[j].created_at
       /\ links = {} => sent.body = << >>

\* a list whose first link was created after its last one
C14_Witness ==
  /\ sent.req.op = "list"
  /\ sent.status = 200
  /\ Len(sent.body) >= 2
  /\ sent.body[1].created_at > sent.body[Len(sent.body)].created_at

\* C15: in every reachable state, every row has last_clicked_at null exactly
\* when its clicks is 0, and a last_clicked_at that is not null is not
\* earlier than created_at.
C15_LastClickedWhenClicked ==
  \A r \in links :
    /\ (r.last_clicked_at = NULL) <=> (r.clicks = 0)
    /\ r.last_clicked_at # NULL => r.last_clicked_at >= r.created_at

\* a link created after the clock moved on, then redirected
C15_Witness ==
  \E r \in links :
    /\ Created(r)
    /\ r.created_at > 0
    /\ r.clicks > 0
    /\ r.last_clicked_at >= r.created_at

\* C16: a request changes nothing about the links of other codes: they are
\* neither added, removed nor altered; a create only adds rows, a delete
\* only removes rows, and a redirect keeps every row, with its short_code,
\* original_url and created_at.
C16_OnlyOwnLinkTouched ==
  sent # NoResp =>
    /\ \A r \in before : r.short_code # sent.req.code => r \in links
    /\ \A r \in links : r.short_code # sent.req.code => r \in before
    /\ sent.req.op = "create" => before \subseteq links
    /\ sent.req.op = "delete" => links \subseteq before
    /\ sent.req.op = "redirect" =>
         /\ { r.id : r \in links } = { r.id : r \in before }
         /\ \A r \in before : \E r2 \in links :
              /\ r2.id = r.id
              /\ r2.short_code = r.short_code
              /\ r2.original_url = r.original_url
              /\ r2.created_at = r.created_at

\* a redirect has counted on its link while a link created by the service
\* under another code stays as it was
C16_Witness ==
  /\ sent.req.op = "redirect"
  /\ sent.status = 302
  /\ \E r \in before : \E r2 \in links :
       r.short_code = sent.req.code /\ r2.id = r.id /\ r2.clicks = r.clicks + 1
  /\ \E o \in links : Created(o) /\ o.short_code # sent.req.code /\ o \in before

\* C17 (as stated): a store failure is answered 500, a unique violation of
\* the INSERT is answered 409, and every answer is one of the known kinds.
C17_ErrorKinds ==
  /\ sent.logged = "store_error" => sent.status = 500
  /\ sent.logged = "unique_violation" => sent.status = 409
  /\ sent.status \in { 0, 200, 201, 302, 400, 404, 409, 500 }

\* C18 (as stated): the destination a counted redirect answers with is the
\* original_url of the link its UPDATE counted on.
C18_DestinationOfCountedLink ==
  (sent.req.op = "redirect" /\ sent.status = 302 /\ sent.statements = 2)
    => \A r \in before :
         (/\ r.short_code = sent.req.code
          /\ \E r2 \in links : r2.id = r.id /\ r2.clicks = r.clicks + 1)
           => sent.body.location = r.original_url

====
